---- MODULE Spec2Model ----
(***************************************************************************)
(* FaissParallelAddIndex (tools/retrieval/index/faiss_par_add): the        *)
(* address scheme of the pairwise merge tree, the missing-work detector,   *)
(* the leaf encode and the pairwise merge, and the row loop of add() run   *)
(* by world_size ranks that meet at torch.distributed.barrier().           *)
(*                                                                         *)
(* The storage directory is the function files: path -> file.  A file      *)
(* holds the batch ids whose vectors it contains, in order (one entry per  *)
(* batch stands for that batch's vectors), and whether its write has       *)
(* completed.  faiss.write_index(index, path) opens the named file and     *)
(* streams into it, so a write is two steps: the file becomes visible,     *)
(* then it is complete.                                                    *)
(***************************************************************************)
EXTENDS Integers, Sequences, FiniteSets, TLC

\* Bounds of the model.
MaxBatches == 3
MaxWorld == 2
MaxRuns == 2
MaxAddrBatches == 9
MaxAddrWorld == 3
MaxAnyBatches == 3
MaxAnyWorld == 2
MaxExecBatches == 3
MaxExecWorld == 2
MaxSweepBatches == 5
MaxSweepWorld == 2
MaxRunBatches == 6
MaxRunWorld == 3

VARIABLES
    num_batches,   \* len(input_data_paths)
    world_size,    \* torch.distributed.get_world_size()
    files,         \* the directory dir_path: path -> [vecs, complete]
    pc,            \* rank -> position in add / encode_partial / merge_partial
    row,           \* rank -> loop variable row of add
    col,           \* rank -> loop variable col of add
    iter,          \* rank -> index into input_index_paths (read loop, delete loop)
    output_index,  \* rank -> the index held in memory by merge_partial
    missing,       \* rank -> missing_index_paths
    arrived,       \* rank -> number of barrier() calls made
    result,        \* rank -> value returned by add
    run,           \* number of the current run of the job
    startFiles,    \* history: files when the current run started
    log,           \* history: operations of the current run
    harness        \* history: bookkeeping of direct calls of the executor

vars == <<num_batches, world_size, files, pc, row, col, iter, output_index,
          missing, arrived, result, run, startFiles, log, harness>>

Ranks == 0 .. (world_size - 1)

None == <<>>

--------------------------------------------------------------------------
\* Arithmetic used by the address scheme.

RECURSIVE Pow2(_)
Pow2(n) == IF n = 0 THEN 1 ELSE 2 * Pow2(n - 1)

\* int(np.ceil(a / b)) for positive integers.
CeilDiv(a, b) == (a + b - 1) \div b

\* int(np.ceil(np.log(n) / np.log(base))): the least k with base^k >= n.
\* (The float quotient is exact for the n of this model.)
RECURSIVE CeilLogFrom(_, _, _, _)
CeilLogFrom(n, base, k, p) ==
    IF p >= n THEN k ELSE CeilLogFrom(n, base, k + 1, p * base)

CeilLog(n, base) == CeilLogFrom(n, base, 0, 1)

\* str(b): the decimal digits of b.
Digit(d) == <<"0", "1", "2", "3", "4", "5", "6", "7", "8", "9">>[d + 1]

RECURSIVE Str(_)
Str(b) == IF b < 10 THEN <<Digit(b)>> ELSE Str(b \div 10) \o <<Digit(b % 10)>>

\* s.zfill(width): pad with zeros on the left, never truncate.
RECURSIVE zfill(_, _)
zfill(s, width) == IF Len(s) >= width THEN s ELSE zfill(<<"0">> \o s, width)

--------------------------------------------------------------------------
\* The address scheme.

get_num_rows_off(nb) == CeilLog(nb, 2)

get_num_rows(nb) == CeilLog(nb, 2) + 1

get_num_cols_floor(nb, ws, r) == nb \div (ws * Pow2(r))

get_num_cols(nb, ws, r) == CeilDiv(nb, ws * Pow2(r))

batch_str_len(nb) == CeilLog(nb, 10) + 1

zf(b, nb) == zfill(Str(b), batch_str_len(nb))

\* First batch id.
batch_id_0_norank(r, c, rank, ws) == Pow2(r) * (c * ws)

batch_id_0(r, c, rank, ws) == Pow2(r) * (rank + c * ws)

get_batch_range_noclamp(b0, b1, nb) ==
    IF b0 >= nb THEN None ELSE <<b0, b1>>

get_batch_range(b0, b1, nb) ==
    IF b0 >= nb THEN None
    ELSE <<b0, IF b1 >= nb THEN nb - 1 ELSE b1>>

\* (A variant that names a file by the first batch of its range alone.)
batch_range_to_index_path_first(range, nb) ==
    IF range = None THEN None
    ELSE <<"added_">> \o zf(range[1], nb) \o <<".faissindex">>

batch_range_to_index_path(range, nb) ==
    IF range = None THEN None
    ELSE <<"added_">> \o zf(range[2] - range[1] + 1, nb) \o <<"_">>
         \o zf(range[1], nb) \o <<"-">> \o zf(range[2], nb)
         \o <<".faissindex">>

\* The void assignment (the function returns None).
NoneMap == [none |-> TRUE]

IsNone(pm) == "none" \in DOMAIN pm

\* batch_id_0 .. batch_id_3 of an assignment.
BatchIds(r, c, rank, ws) ==
    LET b0 == batch_id_0(r, c, rank, ws)
        batch_full_range == Pow2(r)
        batch_half_range == batch_full_range \div 2
        b1 == IF r = 0 THEN b0 ELSE b0 + batch_half_range - 1
        b2 == IF r = 0 THEN b0 ELSE b1 + 1
        b3 == IF r = 0 THEN b0 ELSE b2 + batch_half_range - 1
    IN  <<b0, b1, b2, b3>>

input_batch_ranges(nb, ws, r, c, rank) ==
    LET b == BatchIds(r, c, rank, ws)
    IN  <<get_batch_range(b[1], b[2], nb), get_batch_range(b[3], b[4], nb)>>

output_batch_range(nb, ws, r, c, rank) ==
    LET b == BatchIds(r, c, rank, ws)
    IN  get_batch_range(b[1], b[4], nb)

get_partial_index_path_map(nb, ws, r, c, rank) ==
    LET b0 == BatchIds(r, c, rank, ws)[1]
        ranges == input_batch_ranges(nb, ws, r, c, rank)
        out == batch_range_to_index_path(
                   output_batch_range(nb, ws, r, c, rank), nb)
        all_inputs ==
            [i \in 1..2 |-> batch_range_to_index_path(ranges[i], nb)]
        input_index_paths == SelectSeq(all_inputs, LAMBDA p : p # None)
    IN  IF b0 >= nb THEN NoneMap
        ELSE IF r = 0
        THEN [batch_id |-> b0, num_batches |-> nb,
              output_index_path |-> out, input_data_path |-> b0]
        ELSE IF input_index_paths = <<>> THEN NoneMap
        ELSE [batch_id |-> b0, num_batches |-> nb,
              output_index_path |-> out,
              input_index_paths |-> input_index_paths]

\* path_map.get("input_index_paths", [])
InputPathsOf(pm) ==
    IF "input_index_paths" \in DOMAIN pm THEN pm.input_index_paths ELSE <<>>

get_added_index_path(nb, ws) ==
    get_partial_index_path_map(nb, ws, get_num_rows(nb) - 1, 0, 0).output_index_path

isfile(F, p) == p \in DOMAIN F

\* The set of elements of a sequence.
Range(s) == {s[i] : i \in DOMAIN s}

--------------------------------------------------------------------------
\* get_missing_index_paths: one sweep, rows descending, cols and ranks
\* ascending, accumulating missing_index_paths.

MissingStepAll(F, pm, isTop, acc) ==
    LET output_path == pm.output_index_path
        acc1 == IF isTop /\ ~isfile(F, output_path)
                THEN acc \cup {output_path} ELSE acc
    IN  IF output_path \in acc1
        THEN acc1 \cup Range(InputPathsOf(pm))
        ELSE acc1

MissingStep(F, pm, isTop, acc) ==
    LET output_path == pm.output_index_path
        acc1 == IF isTop /\ ~isfile(F, output_path)
                THEN acc \cup {output_path} ELSE acc
    IN  IF output_path \in acc1
        THEN acc1 \cup {p \in Range(InputPathsOf(pm)) : ~isfile(F, p)}
        ELSE acc1

\* The value of f(e), with e evaluated once before f is applied.
Then(e, f(_)) == CHOOSE res \in {f(x) : x \in {e}} : TRUE

\* Lines 138-164 for one row: the (col, rank) pairs in loop order, k
\* counting them (col = k \div world_size, rank = k % world_size).
RECURSIVE MissingRow(_, _, _, _, _, _, _)
MissingRow(F, nb, ws, num_rows, r, k, acc) ==
    IF k >= get_num_cols(nb, ws, r) * ws THEN acc
    ELSE LET pm == get_partial_index_path_map(nb, ws, r, k \div ws, k % ws)
             next(a) == MissingRow(F, nb, ws, num_rows, r, k + 1, a)
         IN  Then(IF IsNone(pm) THEN acc
                  ELSE MissingStep(F, pm, r = num_rows - 1, acc), next)

\* (A variant that sweeps one row and does not descend.)
MissingRowsTopOnly(F, nb, ws, num_rows, r, acc) ==
    MissingRow(F, nb, ws, num_rows, r, 0, acc)

\* Line 135: rows num_rows-1 down to 0.
RECURSIVE MissingRows(_, _, _, _, _, _)
MissingRows(F, nb, ws, num_rows, r, acc) ==
    IF r < 0 THEN acc
    ELSE LET next(a) == MissingRows(F, nb, ws, num_rows, r - 1, a)
         IN  Then(MissingRow(F, nb, ws, num_rows, r, 0, acc), next)

get_missing_index_paths(F, nb, ws, num_rows) ==
    MissingRows(F, nb, ws, num_rows, num_rows - 1, {})

--------------------------------------------------------------------------
\* The state of one run.

NodeFile(vecs) == [vecs |-> vecs, complete |-> TRUE]

\* A file whose write has begun and not ended.
TornFile == [vecs |-> <<>>, complete |-> FALSE]

\* F with path p holding file f.
Put(F, p, f) == [q \in DOMAIN F \cup {p} |-> IF q = p THEN f ELSE F[q]]

\* F without path p.
Remove(F, p) == [q \in DOMAIN F \ {p} |-> F[q]]

Op(op, path, w) ==
    [op |-> op, path |-> path, rank |-> w, row |-> row[w], col |-> col[w]]

\* The assignment of rank w at its current (row, col).
MyMap(w) ==
    get_partial_index_path_map(num_batches, world_size, row[w], col[w], w)

NumRows == get_num_rows(num_batches)

Alive(w) == pc[w] \notin {"returned", "crashed", "failed"}

NoHarness == [on |-> FALSE]

StartOfRun(ws) ==
    /\ pc = [w \in 0 .. (ws - 1) |-> "missing"]
    /\ row = [w \in 0 .. (ws - 1) |-> 0]
    /\ col = [w \in 0 .. (ws - 1) |-> 0]
    /\ iter = [w \in 0 .. (ws - 1) |-> 0]
    /\ output_index = [w \in 0 .. (ws - 1) |-> <<>>]
    /\ missing = [w \in 0 .. (ws - 1) |-> {}]
    /\ arrived = [w \in 0 .. (ws - 1) |-> 0]
    /\ result = [w \in 0 .. (ws - 1) |-> None]
    /\ log = {}

Init ==
    /\ num_batches \in 1 .. MaxBatches
    /\ world_size \in 1 .. MaxWorld
    /\ files = <<>>
    /\ StartOfRun(world_size)
    /\ run = 1
    /\ startFiles = files
    /\ harness = NoHarness

Fixed == UNCHANGED <<num_batches, world_size, run, startFiles, harness>>

--------------------------------------------------------------------------
\* add, lines 312-325: the missing paths, then the first barrier.

ComputeMissing(w) ==
    /\ pc[w] = "missing"
    /\ missing' = [missing EXCEPT ![w] =
           get_missing_index_paths(files, num_batches, world_size, NumRows)]
    /\ pc' = [pc EXCEPT ![w] = "pre_barrier"]
    /\ UNCHANGED <<files, row, col, iter, output_index, arrived, result, log>>
    /\ Fixed

\* torch.distributed.barrier(): the call.  The three call sites of add are
\* after the missing paths, after the columns of a row, and after the rows.
BarrierCall(w) ==
    /\ \/ /\ pc[w] = "pre_barrier"
          /\ pc' = [pc EXCEPT ![w] = "in_pre_barrier"]
       \/ /\ pc[w] = "cols"
          /\ col[w] >= get_num_cols(num_batches, world_size, row[w])
          /\ pc' = [pc EXCEPT ![w] = "in_row_barrier"]
       \/ /\ pc[w] = "final_barrier"
          /\ pc' = [pc EXCEPT ![w] = "in_final_barrier"]
    /\ arrived' = [arrived EXCEPT ![w] = @ + 1]
    /\ UNCHANGED <<files, row, col, iter, output_index, missing, result, log>>
    /\ Fixed

\* The barrier releases a rank once every rank has made the same call.
AllArrivedNone(w) == TRUE

AllArrived(w) == \A v \in Ranks : arrived[v] >= arrived[w]

BarrierReturn(w) ==
    /\ AllArrived(w)
    /\ \/ /\ pc[w] = "in_pre_barrier"
          /\ pc' = [pc EXCEPT ![w] = "cols"]
          /\ row' = [row EXCEPT ![w] = 0]
          /\ col' = [col EXCEPT ![w] = 0]
          /\ UNCHANGED result
       \/ /\ pc[w] = "in_row_barrier"
          /\ row[w] + 1 < NumRows
          /\ pc' = [pc EXCEPT ![w] = "cols"]
          /\ row' = [row EXCEPT ![w] = @ + 1]
          /\ col' = [col EXCEPT ![w] = 0]
          /\ UNCHANGED result
       \/ /\ pc[w] = "in_row_barrier"
          /\ row[w] + 1 >= NumRows
          /\ pc' = [pc EXCEPT ![w] = "final_barrier"]
          /\ UNCHANGED <<row, col, result>>
       \/ /\ pc[w] = "in_final_barrier"
          /\ pc' = [pc EXCEPT ![w] = "returned"]
          /\ result' = [result EXCEPT ![w] =
                 get_added_index_path(num_batches, world_size)]
          /\ UNCHANGED <<row, col>>
    /\ UNCHANGED <<files, iter, output_index, missing, arrived, log>>
    /\ Fixed

--------------------------------------------------------------------------
\* add, lines 336-367: one column of a row.

\* Lines 354-357: a void assignment, or an output that is not missing.
InWorkSetAlways(w, pm) == TRUE

InWorkSetNever(w, pm) == FALSE

InWorkSet(w, pm) == pm.output_index_path \in missing[w]

SkipCol(w) ==
    /\ pc[w] = "cols"
    /\ col[w] < get_num_cols(num_batches, world_size, row[w])
    /\ LET pm == MyMap(w)
       IN  IF IsNone(pm) THEN TRUE ELSE ~InWorkSet(w, pm)
    /\ col' = [col EXCEPT ![w] = @ + 1]
    /\ UNCHANGED <<files, pc, row, iter, output_index, missing, arrived,
                   result, log>>
    /\ Fixed

\* Lines 360-367: add calls encode_partial (row 0) or merge_partial for an
\* assignment that is not void and whose output is missing; under direct
\* calls the executor has been entered already.
Called(w, fn) ==
    \/ pc[w] = fn
    \/ /\ pc[w] = "cols"
       /\ col[w] < get_num_cols(num_batches, world_size, row[w])
       /\ fn = IF row[w] = 0 THEN "encode_partial" ELSE "merge_partial"
       /\ LET pm == MyMap(w)
          IN  IF IsNone(pm) THEN FALSE ELSE InWorkSet(w, pm)

--------------------------------------------------------------------------
\* The executor: encode_partial and merge_partial.  Both are also called
\* directly (see Invoke below); the history of a run is kept only in a run.

Logged(ops) == IF harness.on THEN log ELSE log \cup ops

FixedExec == UNCHANGED <<num_batches, world_size, run, startFiles>>

\* The executor returns to its caller: the column loop moves on.  Under
\* direct calls the call and the storage it left are remembered.
Return(w, F) ==
    /\ pc' = [pc EXCEPT ![w] = IF harness.on THEN "idle" ELSE "cols"]
    /\ col' = [col EXCEPT ![w] = @ + 1]
    /\ harness' =
           IF harness.on /\ ~harness.again
           THEN [harness EXCEPT !.prev = <<row[w], col[w], w>>,
                                !.prevFiles = F]
           ELSE harness

\* (A variant in which an exception is swallowed and the column loop
\* moves on.)
RaiseSkips(w, what) ==
    /\ pc' = [pc EXCEPT ![w] = IF harness.on THEN "idle" ELSE "cols"]
    /\ col' = [col EXCEPT ![w] = @ + 1]
    /\ log' = Logged({Op(what, None, w)})
    /\ UNCHANGED harness

\* An exception (a failed assert, a missing file) ends the process.
Raise(w, what) ==
    /\ pc' = [pc EXCEPT ![w] = "failed"]
    /\ log' = Logged({Op(what, None, w)})
    /\ UNCHANGED <<col, harness>>

\* encode_partial, lines 192-194: if the partial index exists, return.
EncodeExistsNever(F, p) == FALSE

EncodeExists(F, p) == isfile(F, p)

EncodeEntry(w) ==
    /\ Called(w, "encode_partial")
    /\ LET p == MyMap(w).output_index_path
       IN  /\ log' = Logged({Op("call", p, w), Op("isfile", p, w)})
           /\ IF EncodeExists(files, p)
              THEN Return(w, files)
              ELSE /\ pc' = [pc EXCEPT ![w] = "encode_write"]
                   /\ UNCHANGED <<col, harness>>
    /\ UNCHANGED <<files, row, iter, output_index, missing, arrived, result>>
    /\ FixedExec

\* Lines 196-219: the batch is loaded and added to the empty index (in
\* memory); faiss.write_index opens the output file.
EncodeWriteBegin(w) ==
    /\ pc[w] = "encode_write"
    /\ LET p == MyMap(w).output_index_path
       IN  /\ files' = Put(files, p, TornFile)
           /\ log' = Logged({Op("write", p, w)})
    /\ pc' = [pc EXCEPT ![w] = "encode_writing"]
    /\ UNCHANGED <<row, col, iter, output_index, missing, arrived, result,
                   harness>>
    /\ FixedExec

\* Line 219: faiss.write_index completes.
EncodeWriteEnd(w) ==
    /\ pc[w] = "encode_writing"
    /\ LET pm == MyMap(w)
       IN  /\ files' = Put(files, pm.output_index_path,
                           NodeFile(<<pm.input_data_path>>))
           /\ Return(w, files')
    /\ UNCHANGED <<row, iter, output_index, missing, arrived, result, log>>
    /\ FixedExec

\* merge_partial, line 288: the inputs are deleted if there are two or more.
DeletesInputsAlways(n) == TRUE

DeletesInputs(n) == n >= 2

\* merge_partial, lines 236-239 and 288: the output check, the assert on
\* the number of inputs, and the choice of what follows.
MergeEntry(w) ==
    /\ Called(w, "merge_partial")
    /\ LET pm == MyMap(w)
           n == Len(pm.input_index_paths)
       IN  IF ~isfile(files, pm.output_index_path)
           THEN IF n >= 2
                THEN /\ pc' = [pc EXCEPT ![w] = "merge_read"]
                     /\ iter' = [iter EXCEPT ![w] = 1]
                     /\ output_index' = [output_index EXCEPT ![w] = <<>>]
                     /\ log' = Logged({Op("call", pm.output_index_path, w),
                                    Op("isfile", pm.output_index_path, w)})
                     /\ UNCHANGED <<col, harness>>
                ELSE /\ pc' = [pc EXCEPT ![w] = "failed"]
                     /\ log' = Logged({Op("call", pm.output_index_path, w),
                                       Op("isfile", pm.output_index_path, w),
                                       Op("assert", None, w)})
                     /\ UNCHANGED <<col, harness, iter, output_index>>
           ELSE IF DeletesInputs(n)
                THEN /\ pc' = [pc EXCEPT ![w] = "merge_delete"]
                     /\ iter' = [iter EXCEPT ![w] = 1]
                     /\ log' = Logged({Op("call", pm.output_index_path, w),
                                    Op("isfile", pm.output_index_path, w)})
                     /\ UNCHANGED <<col, harness, output_index>>
                ELSE /\ Return(w, files)
                     /\ log' = Logged({Op("call", pm.output_index_path, w),
                                    Op("isfile", pm.output_index_path, w)})
                     /\ UNCHANGED <<iter, output_index>>
    /\ UNCHANGED <<files, row, missing, arrived, result>>
    /\ FixedExec

\* Lines 243 and 254-281: faiss.read_index of the next input; the first
\* input becomes the output index, each later one is merged into it after
\* the entries it holds (merge_from with id offset ntotal).  A missing file
\* raises; a file whose write never completed raises or yields what it holds.
MergeRead(w) ==
    /\ pc[w] = "merge_read"
    /\ LET pm == MyMap(w)
           p == pm.input_index_paths[iter[w]]
       IN  \/ /\ isfile(files, p)
              /\ output_index' =
                     [output_index EXCEPT ![w] = @ \o files[p].vecs]
              /\ log' = Logged({Op("read", p, w)})
              /\ IF iter[w] < Len(pm.input_index_paths)
                 THEN /\ iter' = [iter EXCEPT ![w] = @ + 1]
                      /\ UNCHANGED pc
                 ELSE /\ pc' = [pc EXCEPT ![w] = "merge_write"]
                      /\ UNCHANGED iter
              /\ UNCHANGED <<col, harness>>
           \/ /\ IF isfile(files, p) THEN ~files[p].complete ELSE TRUE
              /\ Raise(w, "read_error")
              /\ UNCHANGED <<iter, output_index>>
    /\ UNCHANGED <<files, row, missing, arrived, result>>
    /\ FixedExec

\* Line 284: faiss.write_index opens the output file.
MergeWriteBegin(w) ==
    /\ pc[w] = "merge_write"
    /\ LET p == MyMap(w).output_index_path
       IN  /\ files' = Put(files, p, TornFile)
           /\ log' = Logged({Op("write", p, w)})
    /\ pc' = [pc EXCEPT ![w] = "merge_writing"]
    /\ UNCHANGED <<row, col, iter, output_index, missing, arrived, result,
                   harness>>
    /\ FixedExec

\* (A variant in which the deletes follow a write that has not completed.)
MergeWriteEndEarly(w) ==
    /\ pc[w] = "merge_writing"
    /\ pc' = [pc EXCEPT ![w] = "merge_delete"]
    /\ iter' = [iter EXCEPT ![w] = 1]
    /\ UNCHANGED <<files, row, col, output_index, missing, arrived, result,
                   log, harness>>
    /\ FixedExec

\* Line 284 completes; line 288 holds (the assert passed), the deletes follow.
MergeWriteEnd(w) ==
    /\ pc[w] = "merge_writing"
    /\ files' = Put(files, MyMap(w).output_index_path,
                    NodeFile(output_index[w]))
    /\ pc' = [pc EXCEPT ![w] = "merge_delete"]
    /\ iter' = [iter EXCEPT ![w] = 1]
    /\ UNCHANGED <<row, col, output_index, missing, arrived, result, log,
                   harness>>
    /\ FixedExec

\* Line 290: the i-th path of the delete loop.
RemovePathOutput(pm, i) == pm.output_index_path

RemovePath(pm, i) == pm.input_index_paths[i]

\* Lines 290-291: os.remove of the next input; a missing file raises.
MergeDelete(w) ==
    /\ pc[w] = "merge_delete"
    /\ LET pm == MyMap(w)
           p == RemovePath(pm, iter[w])
       IN  IF isfile(files, p)
           THEN /\ files' = Remove(files, p)
                /\ log' = Logged({Op("remove", p, w)})
                /\ IF iter[w] < Len(pm.input_index_paths)
                   THEN /\ iter' = [iter EXCEPT ![w] = @ + 1]
                        /\ UNCHANGED <<pc, col, harness>>
                   ELSE /\ Return(w, files')
                        /\ UNCHANGED iter
           ELSE /\ Raise(w, "remove_error")
                /\ UNCHANGED <<files, iter>>
    /\ UNCHANGED <<row, output_index, missing, arrived, result>>
    /\ FixedExec

--------------------------------------------------------------------------
\* The job: a rank may be killed at any point; the job is then run again on
\* the storage it left.  A completed job may be run again too.

Crash(w) ==
    /\ Alive(w)
    /\ \A v \in Ranks : pc[v] # "crashed"
    /\ pc' = [pc EXCEPT ![w] = "crashed"]
    /\ row' = [row EXCEPT ![w] = 0]
    /\ col' = [col EXCEPT ![w] = 0]
    /\ iter' = [iter EXCEPT ![w] = 0]
    /\ output_index' = [output_index EXCEPT ![w] = <<>>]
    /\ missing' = [missing EXCEPT ![w] = {}]
    /\ UNCHANGED <<num_batches, world_size, files, arrived, result, run,
                   startFiles, log, harness>>

\* A rank that can take no step: gone, or in a barrier some rank has not called.
Blocked(w) ==
    \/ ~Alive(w)
    \/ /\ pc[w] \in {"in_pre_barrier", "in_row_barrier", "in_final_barrier"}
       /\ ~AllArrived(w)

Restart ==
    /\ run < MaxRuns
    /\ \A w \in Ranks : Blocked(w)
    /\ run' = run + 1
    /\ pc' = [w \in Ranks |-> "missing"]
    /\ row' = [w \in Ranks |-> 0]
    /\ col' = [w \in Ranks |-> 0]
    /\ iter' = [w \in Ranks |-> 0]
    /\ output_index' = [w \in Ranks |-> <<>>]
    /\ missing' = [w \in Ranks |-> {}]
    /\ arrived' = [w \in Ranks |-> 0]
    /\ result' = [w \in Ranks |-> None]
    /\ log' = {}
    /\ startFiles' = files
    /\ UNCHANGED <<num_batches, world_size, files, harness>>

\* A direct call of the executor (a test, a caller other than add): rank w
\* calls encode_partial or merge_partial for its assignment at (r, c), one
\* call at a time.  The call is remembered, and whether it repeats the
\* last call that returned.
Invoke(w, r, c) ==
    /\ harness.on
    /\ \A v \in Ranks : pc[v] = "idle"
    /\ ~IsNone(get_partial_index_path_map(num_batches, world_size, r, c, w))
    /\ row' = [row EXCEPT ![w] = r]
    /\ col' = [col EXCEPT ![w] = c]
    /\ pc' = [pc EXCEPT ![w] =
           IF r = 0 THEN "encode_partial" ELSE "merge_partial"]
    /\ harness' = [harness EXCEPT !.again = (harness.prev = <<r, c, w>>)]
    /\ UNCHANGED <<num_batches, world_size, files, iter, output_index,
                   missing, arrived, result, run, startFiles, log>>

Executor ==
    \/ \E w \in Ranks : EncodeEntry(w)
    \/ \E w \in Ranks : EncodeWriteBegin(w)
    \/ \E w \in Ranks : EncodeWriteEnd(w)
    \/ \E w \in Ranks : MergeEntry(w)
    \/ \E w \in Ranks : MergeRead(w)
    \/ \E w \in Ranks : MergeWriteBegin(w)
    \/ \E w \in Ranks : MergeWriteEnd(w)
    \/ \E w \in Ranks : MergeDelete(w)

Add ==
    \/ \E w \in Ranks : ComputeMissing(w)
    \/ \E w \in Ranks : BarrierCall(w)
    \/ \E w \in Ranks : BarrierReturn(w)
    \/ \E w \in Ranks : SkipCol(w)
    \/ Executor

Next ==
    \/ Add
    \/ \E w \in Ranks : Crash(w)
    \/ Restart

Spec == Init /\ [][Next]_vars

--------------------------------------------------------------------------
\* The walk of a completed build: the root output is on disk, so every rank
\* computes an empty set of missing paths and walks every (row, col) of
\* the address scheme, meeting the others at each barrier.

AllBatches(nb) == [i \in 1 .. nb |-> i - 1]

RootPath == batch_range_to_index_path(<<0, num_batches - 1>>, num_batches)

InitAddr ==
    /\ num_batches \in 1 .. MaxAddrBatches
    /\ world_size \in 1 .. MaxAddrWorld
    /\ files = Put(<<>>, RootPath, NodeFile(AllBatches(num_batches)))
    /\ StartOfRun(world_size)
    /\ run = 1
    /\ startFiles = files
    /\ harness = NoHarness

NextAddr ==
    \E w \in Ranks :
        \/ ComputeMissing(w)
        \/ BarrierCall(w)
        \/ BarrierReturn(w)
        \/ SkipCol(w)

SpecAddr == InitAddr /\ [][NextAddr]_vars

--------------------------------------------------------------------------
\* A run on any storage: each node output of the tree is on disk, complete,
\* or is not (a directory left by earlier runs, with files removed by hand).

SeqOfRange(range) == [i \in 1 .. (range[2] - range[1] + 1) |-> range[1] + i - 1]

\* The batch ranges of the nodes of the tree of nb batches.
NodeRanges(nb, ws) ==
    UNION {{output_batch_range(nb, ws, r, c, k) :
               c \in 0 .. (get_num_cols(nb, ws, r) - 1), k \in 0 .. (ws - 1)} :
           r \in 0 .. (get_num_rows(nb) - 1)} \ {None}

\* The directory that holds the complete outputs of the ranges S.
FilesOf(S, nb) ==
    [p \in {batch_range_to_index_path(rg, nb) : rg \in S} |->
        NodeFile(SeqOfRange(
            CHOOSE rg \in S : batch_range_to_index_path(rg, nb) = p))]

InitAny ==
    /\ num_batches \in 1 .. MaxAnyBatches
    /\ world_size \in 1 .. MaxAnyWorld
    /\ \E S \in SUBSET NodeRanges(num_batches, world_size) :
           files = FilesOf(S, num_batches)
    /\ StartOfRun(world_size)
    /\ run = 1
    /\ startFiles = files
    /\ harness = NoHarness

SpecAny == InitAny /\ [][Add]_vars

--------------------------------------------------------------------------
\* A run on any storage with every rank scheduled fairly: each rank is a
\* process of its own, and a process that can take its next step takes it.

\* The next step of rank w in add.
StepOf(w) ==
    /\ w \in Ranks
    /\ \/ ComputeMissing(w)
       \/ BarrierCall(w)
       \/ BarrierReturn(w)
       \/ SkipCol(w)
       \/ EncodeEntry(w)
       \/ EncodeWriteBegin(w)
       \/ EncodeWriteEnd(w)
       \/ MergeEntry(w)
       \/ MergeRead(w)
       \/ MergeWriteBegin(w)
       \/ MergeWriteEnd(w)
       \/ MergeDelete(w)

\* Rank w can take its next step: it has not left add and is not held by a
\* barrier (the guards of the steps of StepOf(w), i.e. the state predicate
\* ENABLED <<StepOf(w)>>_vars).
Runnable(w) == w \in Ranks /\ ~Blocked(w)

\* Weak fairness of the steps of rank w, WF_vars(StepOf(w)), with its
\* enabling condition written as Runnable(w).
WeakFair(w) == ([]<>~Runnable(w)) \/ ([]<><<StepOf(w)>>_vars)

FairAny ==
    /\ InitAny
    /\ [][Add]_vars
    /\ \A w \in 0 .. (MaxAnyWorld - 1) : WeakFair(w)

--------------------------------------------------------------------------
\* Direct calls of the executor, in any order, on a directory that starts
\* empty.

InitExec ==
    /\ num_batches \in 1 .. MaxExecBatches
    /\ world_size \in 1 .. MaxExecWorld
    /\ files = <<>>
    /\ pc = [w \in Ranks |-> "idle"]
    /\ row = [w \in Ranks |-> 0]
    /\ col = [w \in Ranks |-> 0]
    /\ iter = [w \in Ranks |-> 0]
    /\ output_index = [w \in Ranks |-> <<>>]
    /\ missing = [w \in Ranks |-> {}]
    /\ arrived = [w \in Ranks |-> 0]
    /\ result = [w \in Ranks |-> None]
    /\ log = {}
    /\ run = 1
    /\ startFiles = files
    /\ harness = [on |-> TRUE, prev |-> None, prevFiles |-> <<>>,
                  again |-> FALSE]

NextExec ==
    \/ \E w \in Ranks :
           \E r \in 0 .. (NumRows - 1) :
               \E c \in 0 .. (get_num_cols(num_batches, world_size, r) - 1) :
                   Invoke(w, r, c)
    \/ Executor

SpecExec == InitExec /\ [][NextExec]_vars

--------------------------------------------------------------------------
\* get_missing_index_paths on any storage: every rank computes its missing
\* paths from a directory in which each node output is present or is not.

InitSweep ==
    /\ num_batches \in 1 .. MaxSweepBatches
    /\ world_size \in 1 .. MaxSweepWorld
    /\ \E S \in SUBSET NodeRanges(num_batches, world_size) :
           files = FilesOf(S, num_batches)
    /\ StartOfRun(world_size)
    /\ run = 1
    /\ startFiles = files
    /\ harness = NoHarness

NextSweep == \E w \in Ranks : ComputeMissing(w)

SpecSweep == InitSweep /\ [][NextSweep]_vars

--------------------------------------------------------------------------
\* One run of add on an empty directory in which no rank is killed.

InitRun ==
    /\ num_batches \in 1 .. MaxRunBatches
    /\ world_size \in 1 .. MaxRunWorld
    /\ files = <<>>
    /\ StartOfRun(world_size)
    /\ run = 1
    /\ startFiles = files
    /\ harness = NoHarness

SpecRun == InitRun /\ [][Add]_vars

--------------------------------------------------------------------------
\* One run of add by two ranks over five batches, on an empty directory.

InitFive ==
    /\ num_batches = 5
    /\ world_size = 2
    /\ files = <<>>
    /\ StartOfRun(world_size)
    /\ run = 1
    /\ startFiles = files
    /\ harness = NoHarness

SpecFive == InitFive /\ [][Add]_vars

--------------------------------------------------------------------------
\* Notions the properties are stated with.

Rows == 0 .. (NumRows - 1)

Cols(r) == 0 .. (get_num_cols(num_batches, world_size, r) - 1)

PathMap(r, c, k) == get_partial_index_path_map(num_batches, world_size, r, c, k)

\* The (col, rank) pairs of row r whose assignment is not void.
NonVoid(r) == {a \in Cols(r) \X Ranks : ~IsNone(PathMap(r, a[1], a[2]))}

OutRange(r, a) == output_batch_range(num_batches, world_size, r, a[1], a[2])

BatchSet(range) == range[1] .. range[2]

AllReturned == \A w \in Ranks : pc[w] = "returned"

ExecutorPcs == {"encode_partial", "encode_write", "encode_writing",
                "merge_partial", "merge_read", "merge_write",
                "merge_writing", "merge_delete"}

\* C1: at every row, the batch ranges of the non-void assignments over all
\* (col, rank) are pairwise disjoint and their union is 0 .. num_batches-1.
C1_RowPartition ==
    \A r \in Rows :
        /\ \A a, b \in NonVoid(r) :
               a # b => BatchSet(OutRange(r, a)) \cap BatchSet(OutRange(r, b)) = {}
        /\ UNION {BatchSet(OutRange(r, a)) : a \in NonVoid(r)}
               = 0 .. (num_batches - 1)

\* A rank walks a row above the leaves in which some assignment is void
\* and more than one is not.
C1_Witness ==
    \E w \in Ranks :
        /\ pc[w] = "cols"
        /\ row[w] >= 1
        /\ Cardinality(NonVoid(row[w])) >= 2
        /\ NonVoid(row[w]) # Cols(row[w]) \X Ranks
        /\ world_size >= 2

\* C2: the top row has exactly one non-void assignment, (col 0, rank 0);
\* its output range is 0 .. num_batches-1, and its output path is what
\* get_added_index_path, and so add, returns.
C2_SingleRoot ==
    /\ NonVoid(NumRows - 1) = {<<0, 0>>}
    /\ OutRange(NumRows - 1, <<0, 0>>) = <<0, num_batches - 1>>
    /\ get_added_index_path(num_batches, world_size) = RootPath
    /\ \A w \in Ranks : pc[w] = "returned" => result[w] = RootPath

\* Every rank of a world of several has returned the root of a batch count
\* that is no power of two.
C2_Witness ==
    /\ AllReturned
    /\ world_size >= 2
    /\ num_batches \in {3, 5, 6, 7}
    /\ \A w \in Ranks : result[w] = RootPath

--------------------------------------------------------------------------
\* Properties of a run of add.

\* Rank w is inside the column loop of row[w] (between two barriers).
InRowWork(w) == pc[w] \in ExecutorPcs \cup {"cols"}

\* Rank v has called the barrier that ends row r: it is past the column
\* loop of r, every call of the executor it made there has returned.
FinishedRow(v, r) == arrived[v] >= r + 2

Writes == {e \in log : e.op = "write"}

Calls == {e \in log : e.op = "call"}

\* C3: while a rank is at work in row r+1 (an existence check, a read, a
\* write or a delete of an encode or merge of that row), every rank has
\* finished row r; so no two ranks are ever at work in different rows.
C3_RowOrder ==
    \A w, v \in Ranks :
        InRowWork(w) =>
            /\ row[w] >= 1 => FinishedRow(v, row[w] - 1)
            /\ InRowWork(v) => row[v] = row[w]

\* A rank deletes the inputs of a merge while another rank waits in the
\* barrier that ends the same row.
C3_Witness ==
    \E w, v \in Ranks :
        /\ pc[w] = "merge_delete"
        /\ pc[v] = "in_row_barrier"
        /\ row[v] = row[w]

\* C4: in a run, no path is written twice: two writes of the same path are
\* the same write of the same rank at the same (row, col).
C4_SingleWriter ==
    \A a, b \in Writes : a.path = b.path => a = b

\* A leaf written by one rank is the output path of a single-input node
\* that another rank has been called for at the row above.
C4_Witness ==
    \E a \in Writes : \E b \in Calls :
        /\ a.path = b.path
        /\ a.row = 0
        /\ b.row = 1
        /\ a.rank # b.rank

\* C5: a run that starts with the root output on disk computes an empty
\* set of missing paths on every rank, calls the executor for nothing,
\* checks, reads, writes and removes nothing, and leaves the storage as it
\* found it.
C5_RootPresentNoOp ==
    isfile(startFiles, RootPath) =>
        /\ \A w \in Ranks : missing[w] = {}
        /\ log = {}
        /\ files = startFiles

\* A run that found the root and other files besides has returned on
\* every rank.
C5_Witness ==
    /\ isfile(startFiles, RootPath)
    /\ DOMAIN startFiles # {RootPath}
    /\ AllReturned

\* The input paths of the nodes that merge two inputs.
TwoInput(r) ==
    {a \in NonVoid(r) : Len(InputPathsOf(PathMap(r, a[1], a[2]))) >= 2}

ConsumedPaths ==
    UNION {UNION {Range(InputPathsOf(PathMap(r, a[1], a[2]))) : a \in TwoInput(r)} :
           r \in Rows}

LeafPaths == {PathMap(0, a[1], a[2]).output_index_path : a \in NonVoid(0)}

\* C7 (as claimed): once every rank has returned, the files on disk are the
\* root and the leaves that no two-input merge consumes, and nothing else.
C7_NoStaleFiles ==
    AllReturned => DOMAIN files = {RootPath} \cup (LeafPaths \ ConsumedPaths)

\* C8: a run calls the executor only for nodes whose output was not on
\* disk when the run started, writes only such paths, calls it at most once
\* for a node (a row and an output path) and writes a path at most once.
C8_NoRedo ==
    /\ \A e \in Calls \cup Writes : ~isfile(startFiles, e.path)
    /\ \A a, b \in Calls : (a.path = b.path /\ a.row = b.row) => a = b
    /\ \A a, b \in Writes : (a.path = b.path /\ a.row = b.row) => a = b

\* A resumed run that found some outputs on disk and not the root has
\* written an output and returned on every rank.
C8_Witness ==
    /\ run >= 2
    /\ DOMAIN startFiles # {}
    /\ ~isfile(startFiles, RootPath)
    /\ Writes # {}
    /\ AllReturned

\* C9 (as claimed): every file visible at a node's path is complete.
C9_AtomicPublish ==
    \A p \in DOMAIN files : files[p].complete

\* C10 (as claimed): a direct call of encode_partial or merge_partial that
\* repeats the call that just returned raises nothing and, once it has
\* returned, leaves the storage as the first call left it.
C10_ExecutorIdempotent ==
    (harness.on /\ harness.again) =>
        /\ \A w \in Ranks : pc[w] # "failed"
        /\ (\A w \in Ranks : pc[w] = "idle") => files = harness.prevFiles

\* The paths of the node outputs of the tree, the range a path names, and
\* the paths of the nodes above a node (the ranges that contain its range).
NodePaths ==
    {batch_range_to_index_path(rg, num_batches) :
        rg \in NodeRanges(num_batches, world_size)}

PathRange(p) ==
    CHOOSE rg \in NodeRanges(num_batches, world_size) :
        batch_range_to_index_path(rg, num_batches) = p

AncestorPaths(p) ==
    {q \in NodePaths \ {p} :
        BatchSet(PathRange(p)) \subseteq BatchSet(PathRange(q))}

\* The paths written in the current run.
Recomputed == {e.path : e \in Writes}

\* C6 (as claimed): when one non-root output is removed from a directory
\* that holds every node output and the job is run, what the run writes is
\* that output and the outputs of its ancestors, nothing else.
C6_ResumeExactly ==
    AllReturned =>
        \A p \in NodePaths \ {RootPath} :
            DOMAIN startFiles = NodePaths \ {p} =>
                Recomputed = {p} \cup AncestorPaths(p)

\* C6 (amended): a run writes a non-root output that was absent when it
\* started if and only if the outputs of all its ancestors up to the root
\* were absent too, and it then writes those ancestors as well; it writes
\* no output that was on disk (a sibling in particular).
C6_ResumeAmended ==
    AllReturned =>
        /\ Recomputed \cap DOMAIN startFiles = {}
        /\ \A p \in NodePaths \ ({RootPath} \cup DOMAIN startFiles) :
               /\ p \in Recomputed <=> AncestorPaths(p) \cap DOMAIN startFiles = {}
               /\ p \in Recomputed => AncestorPaths(p) \subseteq Recomputed

\* A run has rewritten an absent output and its ancestors and has left
\* alone an output that was on disk and is no ancestor of it.
C6_Witness ==
    /\ AllReturned
    /\ \E p \in NodePaths \ ({RootPath} \cup DOMAIN startFiles) :
           /\ p \in Recomputed
           /\ \E q \in DOMAIN startFiles :
                  q \notin AncestorPaths(p) /\ q \notin Recomputed

--------------------------------------------------------------------------
\* Properties of the nodes of a run.

\* The node of a call of the current run has one input (child B is void).
SingleInput(e) ==
    e.row >= 1 /\ Len(InputPathsOf(PathMap(e.row, e.col, e.rank))) = 1

\* The call e has returned and its rank is still in the row of the call
\* (in the column loop past e.col, or in the barrier that ends the row).
FinishedInRow(e) ==
    /\ pc[e.rank] \notin {"failed", "crashed"}
    /\ row[e.rank] = e.row
    /\ col[e.rank] > e.col

\* No rank has yet called the executor in a row above r.
NotBegunAbove(r) == \A o \in log : o.row <= r

\* C11: once a rank has finished processing a single-input node, a file
\* exists at the node's output path, and stays there until the executor is
\* called in the next row (where the parent addresses it by that path).
C11_SingleInputOutput ==
    \A e \in Calls :
        (SingleInput(e) /\ FinishedInRow(e) /\ NotBegunAbove(e.row))
            => isfile(files, e.path)

\* Every rank waits in the barrier that ends a row in which merge_partial
\* was called for a single-input node and returned.
C11_Witness ==
    /\ \A w \in Ranks : pc[w] = "in_row_barrier"
    /\ \E e \in Calls : SingleInput(e) /\ FinishedInRow(e)

Removes == {e \in log : e.op = "remove"}

\* C12: no rank ever deletes the file at the root path: no os.remove of a
\* run names the path of the range 0 .. num_batches-1.
C12_RootNeverDeleted ==
    \A e \in Removes : e.path # RootPath

\* A run that did not find the root has merged and deleted inputs, and has
\* returned on every rank with the root on disk.
C12_Witness ==
    /\ AllReturned
    /\ ~isfile(startFiles, RootPath)
    /\ Removes # {}
    /\ isfile(files, RootPath)

\* C13: when add has returned on a rank, the value returned is the root
\* path, the same on every rank that has returned; the root file is on
\* disk; no rank is inside encode_partial or merge_partial (so no write of
\* the root is in progress); and a root written by this run is complete.
C13_AddReturn ==
    \A w \in Ranks :
        pc[w] = "returned" =>
            /\ result[w] = RootPath
            /\ \A v \in Ranks : pc[v] = "returned" => result[v] = result[w]
            /\ isfile(files, RootPath)
            /\ \A v \in Ranks : pc[v] \notin ExecutorPcs
            /\ RootPath \in Recomputed => files[RootPath].complete

\* A rank that wrote nothing has returned while the rank that wrote the
\* root in this run is still in the final barrier.
C13_Witness ==
    \E w, v \in Ranks :
        /\ pc[w] = "returned"
        /\ pc[v] = "in_final_barrier"
        /\ \E e \in Writes : e.path = RootPath /\ e.rank = v

--------------------------------------------------------------------------
\* Properties of missing_index_paths (the WorkSet).

PathOf(rg) == batch_range_to_index_path(rg, num_batches)

\* The batch ranges of the nodes above the leaves.
InternalRanges ==
    UNION {{OutRange(r, a) : a \in NonVoid(r)} : r \in Rows \ {0}}

\* Range a lies within range b.
Within(a, b) == b[1] <= a[1] /\ a[2] <= b[2]

\* Rank w holds the missing_index_paths of the current run.
HasWorkSet(w) == pc[w] \notin {"missing", "crashed", "idle"}

\* C14 (as claimed): the WorkSet holds the output path of an internal node
\* whenever the node's output file is absent or a file it depends on,
\* transitively, is absent.
C14_WorkSetMembership ==
    LET nodes == NodeRanges(num_batches, world_size)
    IN  \A w \in Ranks :
            HasWorkSet(w) =>
                \A rg \in InternalRanges :
                    (\/ ~isfile(startFiles, PathOf(rg))
                     \/ \E q \in nodes :
                            Within(q, rg) /\ ~isfile(startFiles, PathOf(q)))
                        => PathOf(rg) \in missing[w]

\* C14 (amended): the WorkSet holds the output path of an internal node if
\* and only if the node's output file is absent and the output file of
\* every node above it, up to the root, is absent too.
C14_WorkSetAmended ==
    LET nodes == NodeRanges(num_batches, world_size)
    IN  \A w \in Ranks :
            HasWorkSet(w) =>
                \A rg \in InternalRanges :
                    PathOf(rg) \in missing[w] <=>
                        \A q \in nodes :
                            Within(rg, q) => ~isfile(startFiles, PathOf(q))

\* Every rank holds a WorkSet with the path of an internal node below the
\* root in it, and the path of an absent file that is not in it.
C14_Witness ==
    /\ \A w \in Ranks : HasWorkSet(w)
    /\ \E w \in Ranks :
           /\ \E rg \in InternalRanges :
                  PathOf(rg) # RootPath /\ PathOf(rg) \in missing[w]
           /\ \E q \in NodeRanges(num_batches, world_size) :
                  ~isfile(startFiles, PathOf(q)) /\ PathOf(q) \notin missing[w]

--------------------------------------------------------------------------
\* The run of five batches by two ranks.

\* The paths rank w has written at row r so far.
WrittenBy(w, r) == {e.path : e \in {x \in Writes : x.rank = w /\ x.row = r}}

\* The nodes merge_partial was called for at row r and wrote nothing for.
Unmerged(r) ==
    {e.path : e \in {x \in Calls : x.row = r}}
        \ {e.path : e \in {x \in Writes : x.row = r}}

LeafPathsOf(B) == {PathOf(<<b, b>>) : b \in B}

\* C15: with five batches and two ranks on an empty directory there are 4
\* rows; at row 0 rank 0 encodes batches 0, 2, 4 and rank 1 batches 1, 3;
\* row 1 merges (0,1) and (2,3) and writes nothing for batch 4, whose leaf
\* file stays; when every rank has returned the directory holds the root
\* of range [0,4] only, with the 5 batches in it, each once.
C15_FiveBatchesTwoRanks ==
    /\ NumRows = 4
    /\ WrittenBy(0, 0) \subseteq LeafPathsOf({0, 2, 4})
    /\ WrittenBy(1, 0) \subseteq LeafPathsOf({1, 3})
    /\ WrittenBy(0, 1) \cup WrittenBy(1, 1)
           \subseteq {PathOf(<<0, 1>>), PathOf(<<2, 3>>)}
    /\ (\A w \in Ranks : row[w] >= 1) =>
           /\ WrittenBy(0, 0) = LeafPathsOf({0, 2, 4})
           /\ WrittenBy(1, 0) = LeafPathsOf({1, 3})
    /\ (\A w \in Ranks : row[w] >= 2) =>
           /\ WrittenBy(0, 1) \cup WrittenBy(1, 1)
                  = {PathOf(<<0, 1>>), PathOf(<<2, 3>>)}
           /\ Unmerged(1) = {PathOf(<<4, 4>>)}
    /\ (\A w \in Ranks : row[w] = 2) =>
           /\ isfile(files, PathOf(<<4, 4>>))
           /\ files[PathOf(<<4, 4>>)] = NodeFile(<<4>>)
    /\ AllReturned =>
           /\ DOMAIN files = {PathOf(<<0, 4>>)}
           /\ files[PathOf(<<0, 4>>)] = NodeFile(<<0, 1, 2, 3, 4>>)
           /\ Len(files[PathOf(<<0, 4>>)].vecs) = 5
           /\ \A w \in Ranks : result[w] = PathOf(<<0, 4>>)

\* Both ranks have returned from the run of five batches.
C15_Witness ==
    /\ num_batches = 5
    /\ world_size = 2
    /\ startFiles = <<>>
    /\ AllReturned
    /\ isfile(files, RootPath)

--------------------------------------------------------------------------
\* Failure of a rank.

Gone(w) == pc[w] \in {"crashed", "failed"}

\* The number of barrier() calls rank v has returned from.
Passed(v) ==
    IF pc[v] \in {"in_pre_barrier", "in_row_barrier", "in_final_barrier"}
    THEN arrived[v] - 1 ELSE arrived[v]

Errors == {e \in log : e.op \in {"assert", "read_error", "remove_error"}}

\* C16: when a rank has crashed or failed, no running rank has returned
\* from a barrier() the gone rank has not called: if it went in row r (or before
\* row 0), no rank is at work in a row above r and no rank has returned
\* from add; and a rank whose call of the executor raised has stopped: it
\* has not gone on to the next column.
C16_FailureBlocks ==
    /\ \A w, v \in Ranks :
           (Gone(w) /\ pc[v] # "crashed") =>
               /\ Passed(v) <= arrived[w]
               /\ InRowWork(v) => row[v] + 1 <= arrived[w]
               /\ arrived[w] < NumRows + 2 => pc[v] # "returned"
    /\ \A e \in Errors :
           /\ pc[e.rank] = "failed"
           /\ row[e.rank] = e.row
           /\ col[e.rank] = e.col

\* The read of an input has raised on one rank in a row above the leaves,
\* and another rank waits in the barrier that ends that row.
C16_Witness ==
    \E w, v \in Ranks :
        /\ pc[w] = "failed"
        /\ row[w] >= 1
        /\ pc[v] = "in_row_barrier"
        /\ arrived[v] > arrived[w]

--------------------------------------------------------------------------
\* The sweep of get_missing_index_paths and the least closed set.

\* The assignments of the tree that are not void.
Nodes ==
    UNION {{PathMap(r, a[1], a[2]) : a \in NonVoid(r)} : r \in Rows}

\* S with the absent inputs of the nodes (of N) whose output path is in S.
Close(F, S, N) ==
    S \cup UNION {{p \in Range(InputPathsOf(pm)) : ~isfile(F, p)} :
                    pm \in {n \in N : n.output_index_path \in S}}

\* S is closed: it holds the root path if the root file is absent, and with
\* the output path of a node every absent input path of that node.
Closed(F, S, N) ==
    /\ ~isfile(F, RootPath) => RootPath \in S
    /\ Close(F, S, N) = S

\* The least closed set: the closure of the root path (if absent) under
\* Close, by iteration from below.
RECURSIVE LeastFrom(_, _, _)
LeastFrom(F, S, N) ==
    LET T == Close(F, S, N)
    IN  IF T = S THEN S ELSE LeastFrom(F, T, N)

LeastClosed(F, N) ==
    LeastFrom(F, IF isfile(F, RootPath) THEN {} ELSE {RootPath}, N)

\* The WorkSets the ranks hold.
WorkSets == {missing[w] : w \in {v \in Ranks : HasWorkSet(v)}}

\* C17: the set a rank computes in one sweep, rows descending, is the
\* least closed set for the storage it was computed from; a second sweep
\* that starts from the result adds nothing to it.
C17_SweepIsLeastFixpoint ==
    LET N == Nodes
        least == LeastClosed(startFiles, N)
    IN  \A S \in WorkSets :
            /\ Closed(startFiles, S, N)
            /\ S = least
            /\ MissingRows(startFiles, num_batches, world_size, NumRows,
                           NumRows - 1, S) = S

\* A rank holds a WorkSet with a path two levels below the root and the
\* path of a single-input node in it, computed on a directory that is
\* not empty.
C17_Witness ==
    \E w \in Ranks :
        /\ HasWorkSet(w)
        /\ startFiles # <<>>
        /\ \E n \in Nodes :
               /\ Len(InputPathsOf(n)) = 1
               /\ n.output_index_path \in missing[w]
        /\ \E n, m \in Nodes :
               /\ n.output_index_path \in missing[w]
               /\ n.output_index_path # RootPath
               /\ Len(InputPathsOf(n)) = 2
               /\ m.output_index_path = InputPathsOf(n)[1]
               /\ m.output_index_path \in missing[w]

--------------------------------------------------------------------------
\* The guards of merge_partial.

NoCrash == \A w \in Ranks : pc[w] # "crashed"

\* C18: in a run in which no rank is killed, the input a merge is about to
\* read is on disk, the input it is about to delete is on disk (os.remove
\* never raises), and the assert on the number of inputs never fails: the
\* output of a single-input node merge_partial is called for is on disk.
C18_MergeGuardsHold ==
    NoCrash =>
        /\ \A w \in Ranks :
               pc[w] = "merge_read" =>
                   isfile(files, MyMap(w).input_index_paths[iter[w]])
        /\ \A w \in Ranks :
               pc[w] = "merge_delete" =>
                   isfile(files, RemovePath(MyMap(w), iter[w]))
        /\ \A e \in Errors : e.op \notin {"assert", "remove_error"}
        /\ \A e \in Calls : SingleInput(e) => isfile(startFiles, e.path)
                                               \/ e.path \in Recomputed

\* A merge is about to delete its second input, which this run wrote and
\* a single-input node has passed on, after its first, which the run found
\* on disk.
C18_Witness ==
    \E w \in Ranks :
        /\ pc[w] = "merge_delete"
        /\ iter[w] = 2
        /\ isfile(startFiles, MyMap(w).input_index_paths[1])
        /\ MyMap(w).input_index_paths[2] \in Recomputed
        /\ \E e \in Calls :
               SingleInput(e) /\ e.path = MyMap(w).input_index_paths[2]

--------------------------------------------------------------------------
\* Files touched by the ranks.

\* The accesses of files of the current run, and those that change a file.
Accesses == {e \in log : e.op \in {"isfile", "read", "write", "remove"}}

Changes == {e \in log : e.op \in {"write", "remove"}}

\* The files the call rank w is inside of may touch.
Touched(w) ==
    IF pc[w] \in ExecutorPcs
    THEN {MyMap(w).output_index_path} \cup Range(InputPathsOf(MyMap(w)))
    ELSE {}

\* C19: the files different ranks touch within one row are disjoint: no
\* file written or deleted by a rank in a row is checked, read, written or
\* deleted by another rank in that row; and at no time are two ranks
\* inside calls of the executor that touch a common file.
C19_RowFilesDisjoint ==
    /\ \A a \in Accesses : \A b \in Changes :
           (a.row = b.row /\ a.path = b.path) => a.rank = b.rank
    /\ \A w, v \in Ranks :
           w # v => Touched(w) \cap Touched(v) = {}

\* Two ranks are inside merges of the same row at once, one deleting its
\* inputs and one reading its inputs.
C19_Witness ==
    \E w, v \in Ranks :
        /\ w # v
        /\ pc[w] = "merge_delete"
        /\ pc[v] = "merge_read"
        /\ row[w] = row[v]

--------------------------------------------------------------------------
\* The WorkSet of a run.

\* In this state: no file has been created or deleted while a rank has
\* not called the first barrier; a rank that has just computed its missing
\* paths holds the set computed from the storage the run started on; all
\* ranks that hold a WorkSet hold the same.
WorkSetsAgreeNow ==
    /\ (\E w \in Ranks : arrived[w] = 0) =>
           (Changes = {} /\ files = startFiles)
    /\ \A w \in Ranks :
           pc[w] = "pre_barrier" =>
               missing[w] = get_missing_index_paths(
                                startFiles, num_batches, world_size, NumRows)
    /\ \A w, v \in Ranks :
           (HasWorkSet(w) /\ HasWorkSet(v)) => missing[w] = missing[v]

\* In this step: a rank comes to hold a WorkSet by computing it, and while
\* it holds one neither the set nor the start of the run changes.
WorkSetKept ==
    \A w \in Ranks :
        /\ (~HasWorkSet(w) /\ pc'[w] \notin {"missing", "crashed", "idle"})
               => pc'[w] = "pre_barrier"
        /\ (HasWorkSet(w) /\ pc'[w] \notin {"missing", "crashed", "idle"})
               => (missing'[w] = missing[w] /\ startFiles' = startFiles)

\* C20: no rank creates or deletes a file before every rank has finished
\* computing its missing paths (has called the first barrier); so at all
\* times the WorkSet of every rank is the one computed from the storage
\* the run started on, the same on all ranks.
C20_WorkSetsAgree == [] WorkSetsAgreeNow /\ [][WorkSetKept]_vars

\* A resumed run: one rank computes its missing paths, not empty, on a
\* directory that is not empty, after another rank has computed its own
\* and waits in the first barrier.
C20_Witness ==
    \E w, v \in Ranks :
        /\ run >= 2
        /\ startFiles # <<>>
        /\ pc[w] = "pre_barrier"
        /\ pc[v] = "in_pre_barrier"
        /\ missing[w] # {}

--------------------------------------------------------------------------
\* The barrier calls of a run.

InBarrier(w) ==
    pc[w] \in {"in_pre_barrier", "in_row_barrier", "in_final_barrier"}

\* The number of barrier() calls the position of rank w in add stands for:
\* one after the missing paths, one after each row, one after the rows.
CallsAt(w) ==
    CASE pc[w] \in {"missing", "pre_barrier"} -> 0
      [] pc[w] = "in_pre_barrier" -> 1
      [] InRowWork(w) -> row[w] + 1
      [] pc[w] = "in_row_barrier" -> row[w] + 2
      [] pc[w] = "final_barrier" -> NumRows + 1
      [] pc[w] \in {"in_final_barrier", "returned"} -> NumRows + 2
      [] OTHER -> arrived[w]

\* C21: in a run without a kill the k-th barrier() call of every rank is
\* made at the same step of add (the count depends on the position in add
\* only, not on the nodes the rank owns); a rank that has returned has
\* made num_rows + 2 calls; no rank has returned from a call that some
\* rank has not made; and the ranks never all wait: while a rank waits in
\* a barrier some rank can take a step.
C21_BarrierCount ==
    NoCrash =>
        /\ \A w \in Ranks : arrived[w] = CallsAt(w)
        /\ \A w \in Ranks : pc[w] = "returned" => arrived[w] = NumRows + 2
        /\ \A w, v \in Ranks : pc[w] # "failed" => Passed(v) <= arrived[w]
        /\ (\A w \in Ranks : pc[w] # "failed") =>
               ((\E w \in Ranks : InBarrier(w)) =>
                    (\E v \in Ranks : ~Blocked(v)))

\* With more ranks than batches, a rank all of whose assignments are void
\* has returned after num_rows + 2 calls, two rows or more.
C21_Witness ==
    \E w \in Ranks :
        /\ w >= num_batches
        /\ NumRows >= 2
        /\ pc[w] = "returned"
        /\ arrived[w] = NumRows + 2

--------------------------------------------------------------------------
\* Termination of a run.

\* C22: from every directory (any subset of the node outputs present), if
\* no rank is killed and every rank is scheduled fairly, the run comes to
\* the state in which every rank has returned from add and the root output
\* is on disk, and stays there.
C22_EventuallyReturns ==
    <>[](AllReturned /\ isfile(files, RootPath))

\* Several ranks have returned from a run that found some outputs on disk
\* and not the root, and the root is on disk.
C22_Witness ==
    /\ AllReturned
    /\ world_size >= 2
    /\ startFiles # <<>>
    /\ ~isfile(startFiles, RootPath)
    /\ isfile(files, RootPath)

--------------------------------------------------------------------------
\* The shape of the tree.

\* The batch ranges of the children of assignment a of row r that exist
\* (the input ranges that are not None), child A first.
ChildRanges(r, a) ==
    SelectSeq(input_batch_ranges(num_batches, world_size, r, a[1], a[2]),
              LAMBDA rg : rg # None)

\* Rank w is at an assignment of the column loop that is not void.
AtNode(w) ==
    /\ pc[w] = "cols"
    /\ col[w] \in Cols(row[w])
    /\ ~IsNone(MyMap(w))

\* The assignment a of row r agrees with the row below.
ConsistentAt(r, a) ==
    LET pm == PathMap(r, a[1], a[2])
        rg == OutRange(r, a)
        ch == ChildRanges(r, a)
        b == a[2] + a[1] * world_size
    IN  IF r = 0
        THEN /\ rg = <<b, b>>
             /\ pm.input_data_path = b
             /\ pm.output_index_path = PathOf(<<b, b>>)
        ELSE /\ rg[2] - rg[1] + 1 <= Pow2(r)
             /\ Len(ch) >= 1
             /\ BatchSet(rg) = UNION {BatchSet(ch[i]) : i \in DOMAIN ch}
             /\ ch[1][1] = rg[1]
             /\ Len(ch) = 2 => ch[1][2] + 1 = ch[2][1] /\ ch[2][2] = rg[2]
             /\ pm.input_index_paths = [i \in DOMAIN ch |-> PathOf(ch[i])]
             /\ \A i \in DOMAIN ch : \E c \in NonVoid(r - 1) :
                    /\ OutRange(r - 1, c) = ch[i]
                    /\ PathMap(r - 1, c[1], c[2]).output_index_path
                           = pm.input_index_paths[i]

\* C23: a row-0 assignment that is not void covers the single batch
\* rank + col * world_size.  Above the leaves, the range of an assignment
\* that is not void holds at most 2^row batches and is the union of the
\* ranges of its children that exist; child A exists and starts the range,
\* child B, if it exists, starts right after child A ends; the input paths
\* are the paths of these children in this order, and each is the output
\* path of an assignment of the row below that is not void and has that
\* range.  (Stated of the assignment each rank is at; the walk visits every
\* row, col and rank.)
C23_TreeConsistency ==
    \A w \in Ranks : AtNode(w) => ConsistentAt(row[w], <<col[w], w>>)

\* A rank is at an assignment two or more rows above the leaves that has
\* two children, the second cut short by the batch count; the row below
\* has an assignment with one child.
C23_Witness ==
    \E w \in Ranks :
        /\ AtNode(w)
        /\ row[w] >= 2
        /\ Len(ChildRanges(row[w], <<col[w], w>>)) = 2
        /\ LET rg == OutRange(row[w], <<col[w], w>>)
           IN  rg[2] - rg[1] + 1 < Pow2(row[w])
        /\ \E a \in NonVoid(row[w] - 1) : Len(ChildRanges(row[w] - 1, a)) = 1

--------------------------------------------------------------------------
\* The naming of the outputs.

\* C24: the output path of an assignment is the name of its batch range:
\* the assignment a rank is at and any assignment of any row, col and rank
\* that is not void have the same output path exactly when they have the
\* same batch range; and the output path of an assignment with one input
\* is that input path, which is the output path of the assignment of the
\* row below with the same range.
C24_PathNamesRange ==
    \A w \in Ranks : AtNode(w) =>
        LET pm == MyMap(w)
            rg == OutRange(row[w], <<col[w], w>>)
        IN  /\ pm.output_index_path = PathOf(rg)
            /\ \A r \in Rows : \A a \in NonVoid(r) :
                   (PathMap(r, a[1], a[2]).output_index_path
                        = pm.output_index_path)
                       <=> (OutRange(r, a) = rg)
            /\ Len(InputPathsOf(pm)) = 1 =>
                   /\ pm.output_index_path = pm.input_index_paths[1]
                   /\ \E c \in NonVoid(row[w] - 1) :
                          /\ OutRange(row[w] - 1, c) = rg
                          /\ PathMap(row[w] - 1, c[1], c[2]).output_index_path
                                 = pm.output_index_path

\* A rank is at an assignment with one input, two or more rows above the
\* leaves; the assignment of the row below with the same output path is at
\* another col and rank, and an assignment of another range starts at the
\* same batch.
C24_Witness ==
    \E w \in Ranks :
        /\ AtNode(w)
        /\ row[w] >= 2
        /\ Len(InputPathsOf(MyMap(w))) = 1
        /\ \E c \in NonVoid(row[w] - 1) :
               /\ PathMap(row[w] - 1, c[1], c[2]).output_index_path
                      = MyMap(w).output_index_path
               /\ c[1] # col[w]
               /\ c[2] # w
        /\ \E r \in Rows : \E a \in NonVoid(r) :
               /\ OutRange(r, a)[1] = OutRange(row[w], <<col[w], w>>)[1]
               /\ OutRange(r, a) # OutRange(row[w], <<col[w], w>>)

--------------------------------------------------------------------------
\* What a step does to the directory.

\* The step is a step of rank w.
Acts(w) ==
    <<pc[w], row[w], col[w], iter[w], output_index[w], missing[w], arrived[w]>>'
        # <<pc[w], row[w], col[w], iter[w], output_index[w], missing[w],
            arrived[w]>>

\* The paths that are not in the directory before the step and are after it.
Created == DOMAIN files' \ DOMAIN files

\* The paths whose file the step replaces.
Rewritten == {p \in DOMAIN files \cap DOMAIN files' : files'[p] # files[p]}

\* The paths that are in the directory before the step and not after it.
Deleted == DOMAIN files \ DOMAIN files'

\* Rank w is in the column loop, at a col of the row or inside the
\* executor called for it.
AtCol(w) == InRowWork(w) /\ col[w] \in Cols(row[w])

\* What a step of rank w may do to the directory.
FrameOf(w) ==
    IF ~AtCol(w) THEN files' = files
    ELSE LET pm == MyMap(w)
         IN  IF IsNone(pm) THEN files' = files
             ELSE IF ~InWorkSet(w, pm) THEN files' = files
             ELSE IF row[w] = 0
             THEN /\ Created \cup Rewritten \subseteq {pm.output_index_path}
                  /\ Deleted = {}
             ELSE IF Len(pm.input_index_paths) = 1 THEN files' = files
             ELSE /\ Created \cup Rewritten \subseteq {pm.output_index_path}
                  /\ Deleted \subseteq Range(pm.input_index_paths)
                  /\ Len(pm.input_index_paths) = 2

\* C25: a step of a rank at a (row, col) whose assignment is void, or whose
\* output path is not among its missing paths, or that has one input,
\* leaves the directory as it is (as does a step outside the column loop);
\* a step of a leaf encode creates or rewrites no path but the output path
\* of the leaf and deletes none; a step of a two-input merge creates or
\* rewrites no path but its output path and deletes none but its two input
\* paths.
C25_Frame ==
    [][\A w \in Ranks : Acts(w) => FrameOf(w)]_vars

\* In a run on a directory that held a leaf output, a two-input merge has
\* deleted an input and a merge with one input has been called; the rank
\* of the leaf has walked row 0 with the leaf output not among its missing
\* paths.
C25_Witness ==
    /\ \E e \in log : e.op = "remove"
    /\ \E e \in Calls : SingleInput(e)
    /\ \E a \in NonVoid(0) :
           /\ isfile(startFiles, PathMap(0, a[1], a[2]).output_index_path)
           /\ HasWorkSet(a[2])
           /\ ~InWorkSet(a[2], PathMap(0, a[1], a[2]))
           /\ arrived[a[2]] >= 2

--------------------------------------------------------------------------
\* What the files hold.

\* C26 (as claimed): in a run that started on an empty directory, a file at
\* the path of the range a .. b holds the batches a, ..., b, each once, in
\* this order (a merge appends the entries of child B after those of child
\* A), and no other batch; so the root holds every batch once.
C26_ContentInvariant ==
    startFiles = <<>> =>
        \A p \in DOMAIN files :
            /\ p \in NodePaths
            /\ files[p].vecs = SeqOfRange(PathRange(p))

--------------------------------------------------------------------------
\* The order of the write and the deletes of a merge.

\* The batches some file of the directory holds.
Held == UNION {Range(files[p].vecs) : p \in DOMAIN files}

\* The step deletes path p as an input of the two-input merge rank w is in,
\* whose output file is on disk, written to the end, and holds what the
\* file at p holds.
DeletedBy(w, p) ==
    /\ Acts(w)
    /\ pc[w] = "merge_delete"
    /\ row[w] >= 1
    /\ LET pm == MyMap(w)
       IN  /\ ~IsNone(pm)
           /\ Len(pm.input_index_paths) = 2
           /\ p \in Range(pm.input_index_paths)
           /\ isfile(files, pm.output_index_path)
           /\ files[pm.output_index_path].complete
           /\ Range(files[p].vecs)
                  \subseteq Range(files[pm.output_index_path].vecs)

\* C27: a step that deletes a file is a step of the two-input merge that
\* has the file as an input, taken when the output file of that merge is
\* on disk; and no step, of a run, a kill or a rerun, takes a batch out of
\* the directory: a batch that some file holds (from the moment its leaf
\* is encoded) is held by some file ever after.
C27_WriteBeforeDelete ==
    [][/\ \A p \in Deleted : \E w \in Ranks : DeletedBy(w, p)
       /\ Held \subseteq Held']_vars

\* A rank was killed between the two deletes of a merge: the first input
\* is gone, the second and the output are on disk.
C27_Witness ==
    \E e \in Removes :
        LET pm == PathMap(e.row, e.col, e.rank)
        IN  /\ pc[e.rank] = "crashed"
            /\ e.path = pm.input_index_paths[1]
            /\ ~isfile(files, e.path)
            /\ isfile(files, pm.input_index_paths[2])
            /\ isfile(files, pm.output_index_path)

====
